---- MODULE Spec2Model ----
(***************************************************************************)
(* Model of pgconfig-ce: the version diff engine of webapp/pgconfig2.py    *)
(* (config_changes, load_config_data, classify_changes,                    *)
(* config_changes_stats) and the configuration line parser of              *)
(* webapp/pgconfig.py                                                      *)
(* (parse_pg_config and its helpers), the summary of all versions          *)
(* (get_all_config), the comparison with a pasted configuration            *)
(* (compare_custom_config) and the comparison routes of webapp/routes.py.  *)
(*                                                                         *)
(* The specifications share the variables; each leaves the others' idle:   *)
(*   Spec        the version diff engine                                   *)
(*   SpecParse   the configuration line parser                             *)
(*   SpecLoad    get_all_config over the version files                     *)
(*   SpecCustom  compare_custom_config                                     *)
(*   SpecWeb     the comparison routes and the redirects they return       *)
(*   SpecDb      _execute_query of config_from_pg/db.py                    *)
(***************************************************************************)
EXTENDS Integers, Sequences, FiniteSets, Bags, TLC

VARIABLES
    vers1,              \* first argument of the last config_changes call
    vers2,              \* second argument of the last config_changes call
    opened,             \* snapshot files opened by the last call, in order
    changed,            \* outcome of the last config_changes call
    stats,              \* outcome of config_changes_stats on `changed`
    html,               \* outcome of config_changes_html on `changed`
    loaded,             \* outcome of the last direct load_config_data call
    config_raw,         \* text handed to parse_pg_config
    source,             \* "custom" (pasted text) or "file" (version file)
    lines,              \* result of _get_config_lines
    pg_config_options,  \* full list returned by _parse_config_lines
    dups,               \* duplicates list returned by _parse_config_lines
    parsed,             \* TRUE once parse_pg_config has returned
    files,              \* the postgresql-<version>.conf files on disk
    CONFIG_FULL,        \* outcome of get_all_config (routes.py: CONFIG_FULL)
    request,            \* path of the request the web layer is answering
    response,           \* what the handler of `request` returned
    hops,               \* redirects followed since the client's last new request
    phase,              \* "idle", "pending" (request sent) or "responded"
    compared,           \* outcome of the last compare_custom_config call
    custom_stats,       \* statistics of the table in `compared`
    db_pc,              \* position of _execute_query: "idle", "get_db_conn",
                        \* "execute", "finally" or "done"
    db_call,            \* arguments of the call and what the server will do
    connections,        \* database connections that are open
    db_log,             \* what the call has done with the connection, in order
    results,            \* how the call ends: the value returned or the error
    calls               \* calls of _execute_query that have ended

diffVars == <<vers1, vers2, opened, changed, stats, html, loaded>>
parseVars == <<config_raw, source, lines, pg_config_options, dups, parsed>>
vars == <<vers1, vers2, opened, changed, stats, html, loaded,
          config_raw, source, lines, pg_config_options, dups, parsed,
          files, CONFIG_FULL, request, response, hops, phase, compared,
          custom_stats, db_pc, db_call, connections, db_log, results, calls>>
loadVars == <<files, CONFIG_FULL>>
appVars == <<request, response, hops, phase, compared, custom_stats>>
dbVars == <<db_pc, db_call, connections, db_log, results, calls>>

(***************************************************************************)
(* Bounds                                                                  *)
(***************************************************************************)
\* version numbers tried as arguments: MinVersion..MaxVersion
MinVersion == 9
MaxVersion == 17
\* longest configuration text, in characters
MaxLen == 7
\* number of assignments of contents to the version files
NumProfiles == 2
\* most version files missing at once when the application starts
MaxMissing == 1
\* longest pasted configuration, in characters
MaxCustomLen == 3
\* redirects a client follows before it gives up
MaxHops == 5
\* most rows a query returns
MaxRows == 2
\* calls of _execute_query in a row
MaxCalls == 2

(***************************************************************************)
(* Python values                                                           *)
(***************************************************************************)
\* float('nan'): what pandas puts in a cell that has no value
NaN == "NaN"
\* Python None (an SQL NULL read by psycopg)
None == "None"

\* Python `a != b` on cell values: NaN differs from everything, itself too
PyNe(a, b) == a = NaN \/ b = NaN \/ a # b

Digits == <<"0", "1", "2", "3", "4", "5", "6", "7", "8", "9">>

\* str(n) for an int
RECURSIVE str(_)
str(n) ==
    IF n < 0 THEN "-" \o str(-n)
    ELSE IF n < 10 THEN Digits[n + 1]
    ELSE str(n \div 10) \o Digits[(n % 10) + 1]

\* delim.join(list)
RECURSIVE join(_, _)
join(delim, list) ==
    IF list = <<>> THEN ""
    ELSE IF Len(list) = 1 THEN list[1]
    ELSE list[1] \o delim \o join(delim, Tail(list))

RECURSIVE Max(_)
Max(S) ==
    IF S = {} THEN 0
    ELSE LET x == CHOOSE y \in S : TRUE
             m == Max(S \ {x})
         IN IF x > m THEN x ELSE m

(***************************************************************************)
(* webapp/pgconfig2.py                                                      *)
(***************************************************************************)
VERSIONS2 == <<"10", "11", "12", "13", "14", "15", "16">>

NEW_STRING == "Configuration parameter added"
REMOVED_STRING == "Configuration parameter removed"

\* parameter names, default values and variable types of the snapshots
ParamNames == {"shared_buffers", "wal_level"}
BootVals == {"on", "off", None}
VarTypes == {"bool", "enum"}

\* one dict of a pickled snapshot (the columns the diff reads)
ParamRecord ==
    [default_config_line : {"line"}, boot_val : BootVals, vartype : VarTypes]

\* a pickled snapshot: the dicts by their unique 'name'
Snapshots ==
    UNION {[names -> ParamRecord] : names \in SUBSET ParamNames}

EmptyTable == [n \in {} |-> NaN]

\* what open() of pg<version>.pkl can give: the pickled list, or
\* FileNotFoundError
FileNotFound == [exists |-> FALSE, data |-> EmptyTable]
FileContents ==
    {[exists |-> TRUE, data |-> s] : s \in Snapshots} \cup {FileNotFound}

\* a DataFrame: `columns` is FALSE for pd.DataFrame() / pd.DataFrame([])
DataFrame(cols, rws) == [error |-> "", columns |-> cols, rows |-> rws]
Raised(err) == [error |-> err, columns |-> FALSE, rows |-> EmptyTable]

InVersions(s) == \E i \in 1..Len(VERSIONS2) : VERSIONS2[i] = s

\* mutant: the version is not checked against VERSIONS
load_config_data_unchecked(pg_version, file) ==
    IF ~file.exists THEN DataFrame(FALSE, EmptyTable)
    ELSE IF DOMAIN file.data = {} THEN Raised("KeyError")
    ELSE DataFrame(TRUE, file.data)

\* mutant: FileNotFoundError is not caught
load_config_data_uncaught(pg_version, file) ==
    IF ~InVersions(str(pg_version)) THEN Raised("ValueError")
    ELSE IF ~file.exists THEN Raised("FileNotFoundError")
    ELSE IF DOMAIN file.data = {} THEN Raised("KeyError")
    ELSE DataFrame(TRUE, file.data)

load_config_data(pg_version, file) ==
    IF ~InVersions(str(pg_version)) THEN Raised("ValueError")
    ELSE IF ~file.exists THEN DataFrame(FALSE, EmptyTable)
    ELSE IF DOMAIN file.data = {} THEN Raised("KeyError")  \* df['name'] of pd.DataFrame([])
    ELSE DataFrame(TRUE, file.data)

\* the files load_config_data opens
OpensFile(pg_version) == InVersions(str(pg_version))

is_NaN(input) == PyNe(input, input)

\* pd.concat([data1, data2.add_suffix('2')], axis=1): outer join on the index
Cell(data, n, col) == IF n \in DOMAIN data.rows THEN data.rows[n][col] ELSE NaN

concat(data1, data2) ==
    [n \in DOMAIN data1.rows \cup DOMAIN data2.rows |->
        [default_config_line  |-> Cell(data1, n, "default_config_line"),
         boot_val             |-> Cell(data1, n, "boot_val"),
         vartype              |-> Cell(data1, n, "vartype"),
         default_config_line2 |-> Cell(data2, n, "default_config_line"),
         boot_val2            |-> Cell(data2, n, "boot_val"),
         vartype2             |-> Cell(data2, n, "vartype")]]

DefaultChanged(row) == PyNe(row.boot_val, row.boot_val2)

\* mutant: the type check written as `elif`, skipped when the default changed
TypeChanged_elif(row) == ~DefaultChanged(row) /\ PyNe(row.vartype, row.vartype2)
TypeChanged(row) == PyNe(row.vartype, row.vartype2)

\* mutant: the 'removed' test left out
classify_changes_no_removed(row) ==
    IF is_NaN(row.default_config_line) /\ ~is_NaN(row.default_config_line2)
    THEN join(", ", <<"Configuration parameter added">>)
    ELSE join(", ",
              (IF DefaultChanged(row) THEN <<"Changed default value">> ELSE <<>>)
              \o (IF TypeChanged(row) THEN <<"Changed variable type">> ELSE <<>>))

classify_changes(row) ==
    IF is_NaN(row.default_config_line) /\ ~is_NaN(row.default_config_line2)
    THEN join(", ", <<"Configuration parameter added">>)
    ELSE IF is_NaN(row.default_config_line2) /\ ~is_NaN(row.default_config_line)
    THEN join(", ", <<"Configuration parameter removed">>)
    ELSE join(", ",
              (IF DefaultChanged(row) THEN <<"Changed default value">> ELSE <<>>)
              \o (IF TypeChanged(row) THEN <<"Changed variable type">> ELSE <<>>))

\* mutant: the filter on the summary left out
Keep_all(summary) == TRUE
\* combined[combined['summary'] != ''][columns]
Keep(summary) == summary # ""

\* mutant: `<` for `<=`, equal versions pass
Misordered_strict(v1, v2) == v2 < v1
Misordered(v1, v2) == v2 <= v1

NoResult == [status |-> "none", rows |-> EmptyTable]
Failed(err) == [status |-> err, rows |-> EmptyTable]

config_changes(v1, v2, file1, file2) ==
    IF Misordered(v1, v2) THEN Failed("ValueError")
    ELSE LET data1 == load_config_data(v1, file1) IN
    IF data1.error # "" THEN Failed(data1.error)
    ELSE LET data2 == load_config_data(v2, file2) IN
    IF data2.error # "" THEN Failed(data2.error)
    \* row['default_config_line'] / data[original_columns] of a missing column
    ELSE IF ~data1.columns \/ ~data2.columns THEN Failed("KeyError")
    ELSE LET combined == concat(data1, data2)
             kept == {n \in DOMAIN combined : Keep(classify_changes(combined[n]))}
         IN [status |-> "ok",
             rows |-> [n \in kept |->
                         [summary  |-> classify_changes(combined[n]),
                          vartype  |-> combined[n].vartype,
                          vartype2 |-> combined[n].vartype2]]]

\* the files a call opens, in order
FilesOpened(v1, v2, file1, file2) ==
    IF Misordered(v1, v2) \/ ~OpensFile(v1) THEN <<>>
    ELSE IF load_config_data(v1, file1).error # "" \/ ~OpensFile(v2)
    THEN <<[version |-> v1, content |-> file1]>>
    ELSE <<[version |-> v1, content |-> file1],
           [version |-> v2, content |-> file2]>>

\* DataFrame.count().max(): the largest number of non-NA cells of a column
isna(x) == x = NaN \/ x = None
Columns == {"summary", "vartype", "vartype2"}
count(rows, col) == Cardinality({n \in DOMAIN rows : ~isna(rows[n][col])})
count_max(rows) == Max({count(rows, col) : col \in Columns})

Select(rows, label) == [n \in {m \in DOMAIN rows : rows[m].summary = label} |-> rows[n]]

\* mutant: the removed rows are not subtracted
Updated_keeps_removed(total, new, removed) == total - new
Updated(total, new, removed) == total - new - removed

config_changes_stats(changes) ==
    LET new == count_max(Select(changes, NEW_STRING))
        removed == count_max(Select(changes, REMOVED_STRING))
        total == count_max(changes)
    IN [new |-> new, updated |-> Updated(total, new, removed), removed |-> removed]

NoStats == [new |-> -1, updated |-> -1, removed |-> -1]

\* changes[~changes.summary.isin(labels)]
SelectNotIn(rows, labels) ==
    [n \in {m \in DOMAIN rows : rows[m].summary \notin labels} |-> rows[n]]

\* mutant: the changed table leaves out the new rows only
ChangedLabels_new_only == {NEW_STRING}
\* the labels the changed table leaves out
ChangedLabels == {NEW_STRING, REMOVED_STRING}

\* the three tables config_changes_html renders, by parameter name
config_changes_html(changes) ==
    [new     |-> DOMAIN Select(changes, NEW_STRING),
     removed |-> DOMAIN Select(changes, REMOVED_STRING),
     changed |-> DOMAIN SelectNotIn(changes, ChangedLabels)]

NoHtml == [new |-> {"-"}, removed |-> {"-"}, changed |-> {"-"}]

NotLoaded == [called |-> FALSE, version |-> 0, result |-> Raised("")]

(***************************************************************************)
(* webapp/pgconfig.py: the configuration line parser.  A text is a         *)
(* sequence of characters.                                                 *)
(***************************************************************************)
Alphabet == {"a", "=", "#", " ", "\n"}
\* the characters of the alphabet str.strip() removes
Whitespace == {" ", "\n"}
\* the characters of the alphabet str.splitlines() and file iteration
\* split at
LineBreaks == {"\n"}

RECURSIVE Min(_)
Min(S) ==
    LET x == CHOOSE y \in S : TRUE
    IN IF S = {x} THEN x
       ELSE LET m == Min(S \ {x}) IN IF x < m THEN x ELSE m

Texts == UNION {[1..n -> Alphabet] : n \in 0..MaxLen}

\* s.find(ch): 0-based index of the first ch, -1 when there is none
find(s, ch) ==
    LET hits == {i \in 1..Len(s) : s[i] = ch}
    IN IF hits = {} THEN -1 ELSE Min(hits) - 1

\* 0-based index of the first line break of s, -1 when there is none
find_break(s) ==
    LET hits == {i \in 1..Len(s) : s[i] \in LineBreaks}
    IN IF hits = {} THEN -1 ELSE Min(hits) - 1

RECURSIVE lstrip(_)
lstrip(s) ==
    IF s # <<>> /\ Head(s) \in Whitespace THEN lstrip(Tail(s)) ELSE s

RECURSIVE rstrip(_)
rstrip(s) ==
    IF s # <<>> /\ s[Len(s)] \in Whitespace
    THEN rstrip(SubSeq(s, 1, Len(s) - 1))
    ELSE s

\* s.strip()
strip(s) == rstrip(lstrip(s))

\* s.splitlines(): the lines without their line break; no last empty line
RECURSIVE splitlines(_)
splitlines(s) ==
    IF s = <<>> THEN <<>>
    ELSE LET i == find_break(s)
         IN IF i < 0 THEN <<s>>
            ELSE <<SubSeq(s, 1, i)>> \o splitlines(SubSeq(s, i + 2, Len(s)))

\* `for line_raw in config_file`: the lines with their line break
RECURSIVE file_lines(_)
file_lines(s) ==
    IF s = <<>> THEN <<>>
    ELSE LET i == find_break(s)
         IN IF i < 0 THEN <<s>>
            ELSE <<SubSeq(s, 1, i + 1)>> \o file_lines(SubSeq(s, i + 2, Len(s)))

\* mutant: split at the last sep (rpartition's place of the cut)
partition_last(s, sep) ==
    LET hits == {i \in 1..Len(s) : s[i] = sep}
    IN IF hits = {} THEN <<s, <<>>, <<>>>>
       ELSE LET i == Max(hits)
            IN <<SubSeq(s, 1, i - 1), <<sep>>, SubSeq(s, i + 1, Len(s))>>

\* s.partition(sep)
partition(s, sep) ==
    LET i == find(s, sep)
    IN IF i < 0 THEN <<s, <<>>, <<>>>>
       ELSE <<SubSeq(s, 1, i), <<sep>>, SubSeq(s, i + 2, Len(s))>>

\* mutant: `i > 0` for `i >= 0`, a '#' in the first column is kept
parse_line_remove_comment_gt0(line) ==
    LET i == find(line, "#")
    IN IF i > 0 THEN strip(SubSeq(line, 1, i)) ELSE strip(line)

parse_line_remove_comment(line) ==
    LET i == find(line, "#")
    IN IF i >= 0 THEN strip(SubSeq(line, 1, i)) ELSE strip(line)

\* mutant: the lines that become empty are not skipped
RECURSIVE clean_lines_keep_empty(_)
clean_lines_keep_empty(raw) ==
    IF raw = <<>> THEN <<>>
    ELSE <<parse_line_remove_comment(Head(raw))>> \o clean_lines_keep_empty(Tail(raw))

\* the loop of _get_config_lines over the raw lines
RECURSIVE clean_lines(_)
clean_lines(raw) ==
    IF raw = <<>> THEN <<>>
    ELSE LET line == parse_line_remove_comment(Head(raw))
         IN IF line = <<>> THEN clean_lines(Tail(raw))
            ELSE <<line>> \o clean_lines(Tail(raw))

\* src is "file" when custom_config is None, else "custom"
get_config_lines(src, text) ==
    IF src = "file" THEN clean_lines(file_lines(text))
    ELSE clean_lines(splitlines(text))

\* key, value = line.partition("=")[::2], both stripped
key_value(line) ==
    LET parts == partition(line, "=")
    IN <<strip(parts[1]), strip(parts[3])>>

\* mutant: the options kept in a dict, a repeated key overwrites its value
RECURSIVE dict_rows(_)
dict_rows(options) ==
    IF options = <<>> THEN <<>>
    ELSE LET key == Head(options)[1]
             SameKey(row) == row[1] = key
             OtherKey(row) == row[1] # key
             same == SelectSeq(Tail(options), SameKey)
             value == IF same = <<>> THEN Head(options)[2] ELSE same[Len(same)][2]
         IN <<<<key, value>>>> \o dict_rows(SelectSeq(Tail(options), OtherKey))

parse_options_dict(lns) == dict_rows([k \in 1..Len(lns) |-> key_value(lns[k])])

\* the first loop of _parse_config_lines: every line appended
parse_options(lns) == [k \in 1..Len(lns) |-> key_value(lns[k])]

\* the keys found while already in `keys`
dup_keys_of(options) ==
    {options[k][1] : k \in {j \in 1..Len(options) :
                              \E i \in 1..(j - 1) : options[i][1] = options[j][1]}}

rows_of(options, key) ==
    LET HasKey(row) == row[1] = key IN SelectSeq(options, HasKey)

\* mutant: only the repeated occurrences are collected, not the first one
RECURSIVE find_dups_repeats_only(_, _)
find_dups_repeats_only(options, order) ==
    IF order = <<>> THEN <<>>
    ELSE Tail(rows_of(options, Head(order)))
         \o find_dups_repeats_only(options, Tail(order))

\* the second loop of _parse_config_lines; `order` is the order in which
\* the set dup_keys is iterated
RECURSIVE find_dups(_, _)
find_dups(options, order) ==
    IF order = <<>> THEN <<>>
    ELSE rows_of(options, Head(order)) \o find_dups(options, Tail(order))

\* the orders a set can be iterated in
Orders(S) ==
    {f \in [1..Cardinality(S) -> S] : \A i, j \in 1..Cardinality(S) : f[i] = f[j] => i = j}

(***************************************************************************)
(* webapp/pgconfig.py: the tables of the versions.  A DataFrame is a set   *)
(* of column labels and a bag of rows (the order of the rows is not        *)
(* modelled); a cell is a text or NaN.                                     *)
(***************************************************************************)
VERSIONS == <<"16beta1", "15", "14", "13", "12", "11", "10", "9.6", "9.5",
              "9.4", "9.3", "9.2">>

VERSION_REDIRECTS == <<[version |-> "12beta4", redirect |-> "12"]>>

VersionSet == {VERSIONS[i] : i \in 1..Len(VERSIONS)}

\* np.nan in a cell of texts
NaNCell == <<"NaN">>

\* Python `a != b` on cells
CellNe(a, b) == a = NaNCell \/ b = NaNCell \/ a # b

\* pd.DataFrame(pg_config_options, columns=['parameter', version])
frame_of(options, version) ==
    LET row(k) == [c \in {"parameter", version} |->
                     IF c = "parameter" THEN options[k][1] ELSE options[k][2]]
        rws == {row(k) : k \in 1..Len(options)}
    IN [is_frame |-> TRUE,
        columns |-> {"parameter", version},
        rows |-> [r \in rws |-> Cardinality({k \in 1..Len(options) : row(k) = r})]]

\* version_conf = False
NotAFrame == [is_frame |-> FALSE, columns |-> {}, rows |-> EmptyBag]

Restrict(row, cols) == [c \in cols |-> row[c]]

Copies(frame, row) == IF row \in DOMAIN frame.rows THEN frame.rows[row] ELSE 1

\* pd.merge(df, df_new, how='outer', on='parameter')
merge(df, df_new) ==
    LET cols == df.columns \cup df_new.columns
        L == DOMAIN df.rows
        R == DOMAIN df_new.rows
        both(l, r) == [c \in cols |-> IF c \in df.columns THEN l[c] ELSE r[c]]
        left_only(l) == [c \in cols |-> IF c \in df.columns THEN l[c] ELSE NaNCell]
        right_only(r) == [c \in cols |-> IF c \in df_new.columns THEN r[c] ELSE NaNCell]
        rws == {both(lr[1], lr[2]) :
                    lr \in {x \in L \X R : x[1].parameter = x[2].parameter}}
               \cup {left_only(l) :
                    l \in {x \in L : \A r \in R : r.parameter # x.parameter}}
               \cup {right_only(r) :
                    r \in {x \in R : \A l \in L : l.parameter # x.parameter}}
    IN [is_frame |-> TRUE,
        columns |-> cols,
        rows |-> [x \in rws |-> Copies(df, Restrict(x, df.columns))
                                  * Copies(df_new, Restrict(x, df_new.columns))]]

\* df[key] = np.nan
add_nan_column(df, key) ==
    LET widen(r) == [c \in df.columns \cup {key} |-> IF c = key THEN NaNCell ELSE r[c]]
    IN [is_frame |-> TRUE,
        columns |-> df.columns \cup {key},
        rows |-> [x \in {widen(r) : r \in DOMAIN df.rows} |->
                     df.rows[Restrict(x, df.columns \ {key})]]]

\* the loop of build_config_summary; config_all is the dict as the sequence
\* of its items in insertion order, popitem takes the last one
RECURSIVE summary_loop(_, _)
summary_loop(df, config_all) ==
    IF config_all = <<>> THEN [status |-> "ok", table |-> df]
    \* pd.merge(False, ...) and False[key] = np.nan
    ELSE IF ~df.is_frame THEN [status |-> "TypeError", table |-> NotAFrame]
    ELSE LET item == config_all[Len(config_all)]
             rest == SubSeq(config_all, 1, Len(config_all) - 1)
         IN IF item.frame.is_frame
            THEN summary_loop(merge(df, item.frame), rest)
            ELSE summary_loop(add_nan_column(df, item.key), rest)

\* mutant: the first table is taken from the front of the dict
build_config_summary_fifo(config_all) ==
    summary_loop(config_all[1].frame, SubSeq(config_all, 2, Len(config_all)))

build_config_summary(config_all) ==
    summary_loop(config_all[Len(config_all)].frame,
                 SubSeq(config_all, 1, Len(config_all) - 1))

\* the contents the version files are filled with
ConfTexts == <<
    <<"a", "=", "a">>,
    <<"a", "=", "\n", "a", "a", "=", "a">>,
    <<"a", "a", "=", " ", "#", "a", "\n", "=", "a">>,
    <<"#", "a", "=", "a">> >>

\* a file system: which files are missing, and the contents of the files
FileSystem(missing, p) ==
    [v \in VersionSet |->
        LET i == CHOOSE k \in 1..Len(VERSIONS) : VERSIONS[k] = v
        IN [exists |-> v \notin missing,
            text |-> ConfTexts[((i + p * (i \div 3)) % Len(ConfTexts)) + 1]]]

\* parse_pg_config(version=version) on the version's file
parse_version_file(fs, version) ==
    frame_of(parse_options(get_config_lines("file", fs[version].text)), version)

\* the dict config_all of get_all_config
RECURSIVE config_all_of(_, _)
config_all_of(fs, versions) ==
    IF versions = <<>> THEN <<>>
    ELSE <<[key |-> Head(versions),
            frame |-> IF fs[Head(versions)].exists
                      THEN parse_version_file(fs, Head(versions))
                      ELSE NotAFrame]>>
         \o config_all_of(fs, Tail(versions))

get_all_config(fs) == build_config_summary(config_all_of(fs, VERSIONS))

NotStarted == [status |-> "none", table |-> NotAFrame]

\* the file systems the application is started on
StartFileSystems ==
    {FileSystem(missing, p) :
        missing \in {m \in SUBSET VersionSet : Cardinality(m) <= MaxMissing},
        p \in 0..(NumProfiles - 1)}

(***************************************************************************)
(* webapp/pgconfig.py: comparing two columns of the summary                *)
(***************************************************************************)
RECURSIVE SumCopies(_, _)
SumCopies(rws, bag) ==
    IF rws = {} THEN 0
    ELSE LET r == CHOOSE x \in rws : TRUE
         IN bag[r] + SumCopies(rws \ {r}, bag)

\* df[mask]: the rows the mask keeps; kept is the set of those rows
Where(df, kept) == [df EXCEPT !.rows = [r \in kept |-> df.rows[r]]]

\* df.count().max(): non-null cells of the fullest column
frame_count_max(df) ==
    LET cnt(c) == SumCopies({r \in DOMAIN df.rows : r[c] # NaNCell}, df.rows)
    IN IF df.columns = {} THEN 0
       ELSE CHOOSE n \in {cnt(c) : c \in df.columns} :
                \A c \in df.columns : cnt(c) <= n

\* df.dropna(): the rows without a null cell
dropna(df) ==
    Where(df, {r \in DOMAIN df.rows : \A c \in df.columns : r[c] # NaNCell})

\* pgconfig.config_changes.  The label 'parameter' is a column of the
\* summary, so it passes the selection; data['parameter'] is then a frame of
\* two columns and its comparison with a column raises ValueError.
pgconfig_config_changes(config_summary, v1, v2) ==
    IF ~({v1, v2} \subseteq config_summary.columns)
    THEN [status |-> "KeyError", table |-> NotAFrame]
    ELSE IF "parameter" \in {v1, v2}
    THEN [status |-> "ValueError", table |-> NotAFrame]
    ELSE LET cols == {"parameter", v1, v2}
             rws == {Restrict(r, cols) : r \in DOMAIN config_summary.rows}
             data == [is_frame |-> TRUE,
                      columns |-> cols,
                      rows |-> [x \in rws |->
                                  SumCopies({r \in DOMAIN config_summary.rows :
                                                Restrict(r, cols) = x},
                                            config_summary.rows)]]
         IN [status |-> "ok",
             table |-> Where(data, {r \in DOMAIN data.rows :
                           /\ CellNe(r[v1], r[v2])
                           /\ (r[v1] # NaNCell \/ r[v2] # NaNCell)})]

\* pgconfig.config_changes_html: `changes` gets the column 'history'
pgconfig_config_changes_html(changes) ==
    LET cols == changes.columns \cup {"history"}
        widen(r) == [c \in cols |->
                        IF c = "history"
                        THEN <<"<a href=\"/param/">> \o r.parameter \o <<"\" target=\"blank\">">>
                        ELSE r[c]]
    IN [is_frame |-> TRUE,
        columns |-> cols,
        rows |-> [x \in {widen(r) : r \in DOMAIN changes.rows} |->
                     changes.rows[Restrict(x, changes.columns)]]]

\* pgconfig.config_changes_stats
pgconfig_config_changes_stats(changes, v1, v2) ==
    LET rws == DOMAIN changes.rows
    IN [new |-> frame_count_max(Where(changes, {r \in rws : r[v1] = NaNCell})),
        updated |-> frame_count_max(
                        dropna(Where(changes, {r \in rws : CellNe(r[v1], r[v2])}))),
        removed |-> frame_count_max(Where(changes, {r \in rws : r[v2] = NaNCell}))]

\* the sources of VERSION_REDIRECTS
RedirectSources == {VERSION_REDIRECTS[i].version : i \in 1..Len(VERSION_REDIRECTS)}

RECURSIVE check_redirect_loop(_, _)
check_redirect_loop(version, redirects) ==
    IF redirects = <<>> THEN version
    ELSE IF version = Head(redirects).version THEN Head(redirects).redirect
    ELSE check_redirect_loop(version, Tail(redirects))

\* mutant: the redirect table is ignored
check_redirect_unmapped(version) == version

check_redirect(version) == check_redirect_loop(version, VERSION_REDIRECTS)

(***************************************************************************)
(* webapp/pgconfig.py: compare_custom_config                               *)
(***************************************************************************)
\* identifiers tried as versions: the supported ones, a redirected one, an
\* unknown one and the label of the summary's first column
Idents == VersionSet \cup {"12beta4", "9.9", "parameter"}

NotCompared ==
    [called |-> FALSE, vers1 |-> "", status |-> "none", trace |-> <<>>,
     summary |-> NotAFrame, dups |-> <<>>]

\* the outcome of a call and the steps it took: "parse_custom" is
\* parse_pg_config on the pasted text, "open_file" the open of the
\* version's file
CompareOutcome(v, status, trace, summary, dup_list) ==
    [called |-> TRUE, vers1 |-> v, status |-> status, trace |-> trace,
     summary |-> summary, dups |-> dup_list]

\* mutant: the version is checked after the pasted text is parsed
compare_custom_config_late_check(fs, v, text, order) ==
    LET opts == parse_options(get_config_lines("custom", text))
        custom_config == frame_of(opts, "custom")
        dup_list == find_dups(opts, order)
    IN IF v \notin VersionSet
       THEN CompareOutcome(v, "ValueError", <<"parse_custom">>, NotAFrame, <<>>)
       ELSE IF ~fs[v].exists
       THEN CompareOutcome(v, "FileNotFoundError", <<"parse_custom", "open_file">>,
                           NotAFrame, <<>>)
       ELSE CompareOutcome(v, "ok", <<"parse_custom", "open_file">>,
                build_config_summary(<<[key |-> "custom", frame |-> custom_config],
                                       [key |-> v, frame |-> parse_version_file(fs, v)]>>).table,
                dup_list)

compare_custom_config(fs, v, text, order) ==
    IF v \notin VersionSet
    THEN CompareOutcome(v, "ValueError", <<>>, NotAFrame, <<>>)
    ELSE LET opts == parse_options(get_config_lines("custom", text))
             custom_config == frame_of(opts, "custom")
             dup_list == find_dups(opts, order)
         IN IF ~fs[v].exists
            THEN CompareOutcome(v, "FileNotFoundError", <<"parse_custom", "open_file">>,
                                NotAFrame, <<>>)
            ELSE CompareOutcome(v, "ok", <<"parse_custom", "open_file">>,
                     build_config_summary(<<[key |-> "custom", frame |-> custom_config],
                                            [key |-> v, frame |-> parse_version_file(fs, v)]>>).table,
                     dup_list)

\* custom_config_invalid_params
custom_config_invalid_params(changes, v) ==
    Where(changes, {r \in DOMAIN changes.rows : r[v] = NaNCell})

\* mutant: the rows with a null cell are kept
custom_config_updated_params_keep_null(changes, v) ==
    Where(changes, {r \in DOMAIN changes.rows : CellNe(r[v], r["custom"])})

custom_config_updated_params(changes, v) ==
    dropna(Where(changes, {r \in DOMAIN changes.rows : CellNe(r[v], r["custom"])}))

custom_config_changes_stats(changes, v) ==
    LET rws == DOMAIN changes.rows
    IN [invalid_param_custom |->
            frame_count_max(Where(changes, {r \in rws : r[v] = NaNCell})),
        default_setting |->
            frame_count_max(Where(changes, {r \in rws : r["custom"] = NaNCell})),
        updated |-> frame_count_max(custom_config_updated_params(changes, v))]

NoCustomStats ==
    [called |-> FALSE,
     change_stats |-> [invalid_param_custom |-> 0, default_setting |-> 0, updated |-> 0],
     updated_params |-> NotAFrame]

(***************************************************************************)
(* webapp/routes.py: the comparison routes.  A path is the sequence of its *)
(* segments; the router binds the third and fourth segment of              *)
(* /param/change/<vers1>/<vers2>.                                          *)
(***************************************************************************)
RootPath == <<>>
ParamChangePath == <<"param", "change">>
ComparisonPath(v1, v2) == <<"param", "change", v1, v2>>

NoResponse ==
    [kind |-> "none", location |-> <<>>, error |-> "",
     vers1_redirect |-> "", vers2_redirect |-> "", lookup |-> <<>>,
     page |-> [config_changes |-> NotAFrame,
               changes_stats |-> [new |-> 0, updated |-> 0, removed |-> 0],
               vers1 |-> "", vers2 |-> ""]]

\* flask.redirect(location)
redirect(location) == [NoResponse EXCEPT !.kind = "redirect", !.location = location]

\* an exception that leaves the handler
Unhandled(error) == [NoResponse EXCEPT !.kind = "error", !.error = error]

\* render_template('param_change.html', ...)
render_template(changes_html, changes_stats, v1, v2) ==
    [NoResponse EXCEPT !.kind = "render",
                       !.page = [config_changes |-> changes_html,
                                 changes_stats |-> changes_stats,
                                 vers1 |-> v1, vers2 |-> v2]]

redirect_param_change_with_defaults == redirect(ComparisonPath("9.6", "12"))

view_root_url == redirect_param_change_with_defaults

\* the handler from the call of pgconfig.config_changes on
comparison_page(config_full, v1, v2) ==
    LET config_changes_ == pgconfig_config_changes(config_full, v1, v2)
        config_changes_html_ == pgconfig_config_changes_html(config_changes_.table)
        changes_stats == pgconfig_config_changes_stats(config_changes_html_, v1, v2)
        answer == IF config_changes_.status = "KeyError"
                  THEN redirect(ParamChangePath)
                  ELSE IF config_changes_.status # "ok"
                  THEN Unhandled(config_changes_.status)
                  ELSE render_template(config_changes_html_, changes_stats, v1, v2)
    IN [answer EXCEPT !.lookup = <<[vers1 |-> v1, vers2 |-> v2]>>]

\* mutant: the redirect table is not consulted before the lookup
view_app_param_changes_lookup_first(config_full, v1, v2) ==
    LET vers1_redirect == check_redirect(v1)
        vers2_redirect == check_redirect(v2)
        answer == IF v1 = v2
                  THEN redirect(ParamChangePath)
                  ELSE comparison_page(config_full, v1, v2)
    IN [answer EXCEPT !.vers1_redirect = vers1_redirect,
                      !.vers2_redirect = vers2_redirect]

view_app_param_changes(config_full, v1, v2) ==
    LET vers1_redirect == check_redirect(v1)
        vers2_redirect == check_redirect(v2)
        answer == IF v1 = v2
                  THEN redirect(ParamChangePath)
                  ELSE IF v1 # vers1_redirect \/ v2 # vers2_redirect
                  THEN redirect(ComparisonPath(vers1_redirect, vers2_redirect))
                  ELSE comparison_page(config_full, v1, v2)
    IN [answer EXCEPT !.vers1_redirect = vers1_redirect,
                      !.vers2_redirect = vers2_redirect]

(***************************************************************************)
(* webapp/routes.py: what a handler does to CONFIG_FULL.  A frame a        *)
(* handler writes to is either the object CONFIG_FULL or a new object;     *)
(* a write to a new object leaves CONFIG_FULL as it is.                    *)
(***************************************************************************)
\* mutant: a selection is a view of the frame it selects from
selection_view == "CONFIG_FULL"

\* config_summary[[...]] and data[mask] build a new frame
selection_object == "new"

\* Series.unique() builds a new array
unique_object == "new"

\* CONFIG_FULL after `value` is written to `object`
written(config_full, object, value) ==
    IF object = "CONFIG_FULL" THEN value ELSE config_full

\* Python's order of the characters: their code points
Ord(c) ==
    CASE c = "\n" -> 10
      [] c = " " -> 32
      [] c = "#" -> 35
      [] c = "=" -> 61
      [] OTHER -> 97

\* Python `x < y` on texts
RECURSIVE StrLess(_, _)
StrLess(x, y) ==
    IF y = <<>> THEN FALSE
    ELSE IF x = <<>> THEN TRUE
    ELSE IF Ord(Head(x)) # Ord(Head(y)) THEN Ord(Head(x)) < Ord(Head(y))
    ELSE StrLess(Tail(x), Tail(y))

RECURSIVE insert_sorted(_, _)
insert_sorted(x, sorted) ==
    IF sorted = <<>> THEN <<x>>
    ELSE IF StrLess(Head(sorted), x)
    THEN <<Head(sorted)>> \o insert_sorted(x, Tail(sorted))
    ELSE <<x>> \o sorted

\* ndarray.sort()
RECURSIVE sort(_)
sort(values) ==
    IF values = <<>> THEN <<>> ELSE insert_sorted(Head(values), sort(Tail(values)))

\* Series.unique(): the distinct values in the order they first appear
RECURSIVE unique(_)
unique(values) ==
    IF values = <<>> THEN <<>>
    ELSE LET init == unique(SubSeq(values, 1, Len(values) - 1))
             last == values[Len(values)]
         IN IF \E i \in 1..Len(init) : init[i] = last THEN init
            ELSE Append(init, last)

\* the frame whose column 'parameter' is sorted where it lies
parameter_sorted_in_place(df, order) ==
    LET sorted == sort([i \in 1..Len(order) |-> order[i].parameter])
        rws == {[order[i] EXCEPT !.parameter = sorted[i]] : i \in 1..Len(order)}
    IN [df EXCEPT !.rows = [r \in rws |-> 1]]

\* _config_select_html: the options of the select element, and CONFIG_FULL
\* after options.sort()
config_select_html(config_full, order, filter_default) ==
    LET options == sort(unique([i \in 1..Len(order) |-> order[i].parameter]))
    IN [html |-> [i \in 1..Len(options) |->
                    [value |-> options[i], selected |-> options[i] = filter_default]],
        config_full |-> written(config_full, unique_object,
                                parameter_sorted_in_place(config_full, order))]

\* pgconfig.config_to_html
config_to_html(config_summary, filter_value) ==
    Where(config_summary,
          {r \in DOMAIN config_summary.rows : r.parameter = filter_value})

\* the text of a path segment
Chars(segment) ==
    CASE segment = "a" -> <<"a">>
      [] segment = "aa" -> <<"a", "a">>
      [] OTHER -> <<segment>>

\* view_app_params: the answer, and CONFIG_FULL after it
view_app_params(config_full, order, pg_param) ==
    LET select_html == config_select_html(config_full, order, pg_param)
    IN [answer |-> [NoResponse EXCEPT
                      !.kind = "render",
                      !.page = [select_html |-> select_html.html,
                                config_full |-> config_to_html(select_html.config_full,
                                                               pg_param)]],
        config_full |-> select_html.config_full]

\* view_custom_config_comparison; the handler does not name CONFIG_FULL
view_custom_config_comparison(fs, v, submitted, text, order) ==
    IF ~submitted
    THEN [NoResponse EXCEPT !.kind = "render", !.page = [vers1 |-> v, form |-> TRUE]]
    ELSE LET result == compare_custom_config(fs, v, text, order)
             config_compare == pgconfig_config_changes_html(result.summary)
             updated_params == custom_config_updated_params(config_compare, v)
             invalid_params == custom_config_invalid_params(config_compare, v)
         IN IF result.status # "ok" THEN Unhandled(result.status)
            ELSE [NoResponse EXCEPT
                    !.kind = "render",
                    !.page = [vers1 |-> v,
                              config_compare_full |-> config_compare,
                              change_stats |-> custom_config_changes_stats(config_compare, v),
                              invalid_params |-> pgconfig_config_changes_html(invalid_params),
                              updated_params |-> pgconfig_config_changes_html(updated_params),
                              dups |-> result.dups]]

\* the paths a client asks for first
StartPaths ==
    {RootPath, ParamChangePath}
    \cup {ComparisonPath(v1, v2) : v1, v2 \in Idents}
    \cup {<<"param", pg_param>> :
            pg_param \in {"a", "aa", "max_parallel_workers_per_gather"}}
    \cup {<<"custom", v>> : v \in Idents}

(***************************************************************************)
(* config_from_pg/db.py: _execute_query.  A value a call returns is a      *)
(* tuple: False, True, None, a row or the list of the rows.                *)
(***************************************************************************)
ResultFalse == <<"False">>

NoOutcome == [kind |-> "none", value |-> <<>>, error |-> ""]
Returns(value) == [kind |-> "return", value |-> value, error |-> ""]
Raises(error) == [kind |-> "raise", value |-> <<>>, error |-> error]

\* a call: its qry_type, and how the server answers it
Calls ==
    [qry_type : {"sel_single", "sel_multi", "ddl", "sel_all"},
     \* psycopg.connect: a connection, or the error it raises
     connect : {"connected", "OperationalError", "ProgrammingError"},
     \* cur.execute: success, or the error it raises
     execute : {"ok", "ProgrammingError", "IntegrityError", "OperationalError"},
     returns_rows : BOOLEAN, rows : 0..MaxRows]

\* the exception classes the package psycopg exports
PsycopgNames ==
    {"Error", "Warning", "InterfaceError", "DatabaseError", "DataError",
     "OperationalError", "IntegrityError", "InternalError", "ProgrammingError",
     "NotSupportedError"}

get_db_conn(outcome) ==
    IF outcome = "connected" THEN Returns(<<"conn">>)
    ELSE IF outcome = "OperationalError" THEN Returns(ResultFalse)
    ELSE Raises(outcome)

\* the first try statement of _execute_query and the test of conn
open_connection(outcome) ==
    LET conn == get_db_conn(outcome)
    IN IF conn.kind = "raise"
       THEN IF conn.error = "ProgrammingError" THEN Returns(ResultFalse) ELSE conn
       ELSE IF conn.value = ResultFalse THEN Returns(ResultFalse)
       ELSE conn

\* cur.fetchone() and cur.fetchall(); a statement without a result set
\* makes them raise ProgrammingError
fetchone(call) ==
    IF ~call.returns_rows THEN Raises("ProgrammingError")
    ELSE IF call.rows = 0 THEN Returns(<<"None">>)
    ELSE Returns(<<"row", 1>>)

fetchall(call) ==
    IF ~call.returns_rows THEN Raises("ProgrammingError")
    ELSE Returns(<<"list", call.rows>>)

\* the body of the second try statement
try_body(call) ==
    IF call.execute # "ok" THEN Raises(call.execute)
    ELSE IF call.qry_type = "sel_single" THEN fetchone(call)
    ELSE IF call.qry_type = "sel_multi" THEN fetchall(call)
    ELSE IF call.qry_type = "ddl" THEN Returns(<<"True">>)
    ELSE Raises("Exception")

\* the except clauses are tried in order once the body has raised: the
\* class a clause names is looked up in psycopg first, and a name psycopg
\* does not have raises AttributeError in place of the error
RECURSIVE except_clauses(_, _)
except_clauses(raised, clauses) ==
    IF clauses = <<>> THEN raised
    ELSE IF Head(clauses) \notin PsycopgNames THEN Raises("AttributeError")
    ELSE IF raised.error = Head(clauses) THEN Returns(ResultFalse)
    ELSE except_clauses(raised, Tail(clauses))

\* the second try statement up to its finally clause
try_except(call) ==
    LET body == try_body(call)
    IN IF body.kind = "raise"
       THEN except_clauses(body, <<"BINARYProgrammingError", "IntegrityError">>)
       ELSE body

\* mutant: conn.close() follows the try statement
closed_after_try(pending) == pending.kind = "return"

\* finally: conn.close() runs however the try statement ends
closed_in_finally(pending) == pending.kind \in {"return", "raise"}

(***************************************************************************)
(* The diff engine as a state machine                                      *)
(***************************************************************************)
ParseIdle ==
    /\ config_raw = <<>>
    /\ source = "custom"
    /\ lines = <<>>
    /\ pg_config_options = <<>>
    /\ dups = <<>>
    /\ parsed = FALSE

DiffIdle ==
    /\ vers1 = 0
    /\ vers2 = 0
    /\ opened = <<>>
    /\ changed = NoResult
    /\ stats = NoStats
    /\ html = NoHtml
    /\ loaded = NotLoaded

LoadIdle ==
    /\ files = FileSystem({}, 0)
    /\ CONFIG_FULL = NotStarted

AppIdle ==
    /\ request = RootPath
    /\ response = NoResponse
    /\ hops = 0
    /\ phase = "idle"
    /\ compared = NotCompared
    /\ custom_stats = NoCustomStats

DbIdle ==
    /\ db_pc = "idle"
    /\ db_call = [qry_type |-> "", connect |-> "", execute |-> "",
                  returns_rows |-> FALSE, rows |-> 0]
    /\ connections = 0
    /\ db_log = <<>>
    /\ results = NoOutcome
    /\ calls = 0

Init == DiffIdle /\ ParseIdle /\ LoadIdle /\ AppIdle /\ DbIdle

\* one call of config_changes; nothing survives a call, so a behaviour
\* makes one call and then reads its result
ConfigChanges ==
    /\ changed = NoResult
    /\ ~loaded.called
    /\ \E v1, v2 \in MinVersion..MaxVersion : \E file1, file2 \in FileContents :
        /\ vers1' = v1
        /\ vers2' = v2
        /\ opened' = FilesOpened(v1, v2, file1, file2)
        /\ changed' = config_changes(v1, v2, file1, file2)
    /\ stats' = NoStats
    /\ UNCHANGED <<html, loaded>>
    /\ UNCHANGED parseVars
    /\ UNCHANGED loadVars
    /\ UNCHANGED appVars
    /\ UNCHANGED dbVars

ConfigChangesStats ==
    /\ changed.status = "ok"
    /\ stats = NoStats
    /\ stats' = config_changes_stats(changed.rows)
    /\ UNCHANGED <<vers1, vers2, opened, changed, html, loaded>>
    /\ UNCHANGED parseVars
    /\ UNCHANGED loadVars
    /\ UNCHANGED appVars
    /\ UNCHANGED dbVars

ConfigChangesHtml ==
    /\ changed.status = "ok"
    /\ html = NoHtml
    /\ html' = config_changes_html(changed.rows)
    /\ UNCHANGED <<vers1, vers2, opened, changed, stats, loaded>>
    /\ UNCHANGED parseVars
    /\ UNCHANGED loadVars
    /\ UNCHANGED appVars
    /\ UNCHANGED dbVars

\* one direct call of load_config_data
LoadConfigData ==
    /\ changed = NoResult
    /\ ~loaded.called
    /\ \E v \in MinVersion..MaxVersion : \E file \in FileContents :
        /\ loaded' = [called |-> TRUE, version |-> v,
                      result |-> load_config_data(v, file)]
        /\ opened' = IF OpensFile(v)
                      THEN <<[version |-> v, content |-> file]>>
                      ELSE <<>>
    /\ UNCHANGED <<vers1, vers2, changed, stats, html>>
    /\ UNCHANGED parseVars
    /\ UNCHANGED loadVars
    /\ UNCHANGED appVars
    /\ UNCHANGED dbVars

Next ==
    \/ ConfigChanges
    \/ ConfigChangesStats
    \/ ConfigChangesHtml
    \/ LoadConfigData

Spec == Init /\ [][Next]_vars

(***************************************************************************)
(* The parser as a state machine: a text is drawn, one call of             *)
(* parse_pg_config parses it                                               *)
(***************************************************************************)
InitParse ==
    /\ DiffIdle
    /\ config_raw \in Texts
    /\ source = "custom"
    /\ lines = <<>>
    /\ pg_config_options = <<>>
    /\ dups = <<>>
    /\ parsed = FALSE
    /\ LoadIdle
    /\ AppIdle
    /\ DbIdle

parse_pg_config(src) ==
    /\ ~parsed
    /\ source' = src
    /\ lines' = get_config_lines(src, config_raw)
    /\ pg_config_options' = parse_options(lines')
    /\ \E order \in Orders(dup_keys_of(pg_config_options')) :
           dups' = find_dups(pg_config_options', order)
    /\ parsed' = TRUE
    /\ UNCHANGED config_raw
    /\ UNCHANGED diffVars
    /\ UNCHANGED loadVars
    /\ UNCHANGED appVars
    /\ UNCHANGED dbVars

\* parse_pg_config(version='custom', custom_config=config_raw)
ParseCustomConfig == parse_pg_config("custom")

\* parse_pg_config(version): the text is the content of the version's file
ParseVersionFile == parse_pg_config("file")

NextParse == ParseCustomConfig \/ ParseVersionFile

SpecParse == InitParse /\ [][NextParse]_vars

(***************************************************************************)
(* Loading the tables of all versions: a file system is drawn, one call    *)
(* of get_all_config builds the summary                                    *)
(***************************************************************************)
InitLoad ==
    /\ DiffIdle
    /\ ParseIdle
    /\ files \in {FileSystem(missing, p) :
                    missing \in SUBSET VersionSet, p \in 0..(NumProfiles - 1)}
    /\ CONFIG_FULL = NotStarted
    /\ AppIdle
    /\ DbIdle

GetAllConfig ==
    /\ CONFIG_FULL = NotStarted
    /\ CONFIG_FULL' = get_all_config(files)
    /\ UNCHANGED files
    /\ UNCHANGED diffVars
    /\ UNCHANGED parseVars
    /\ UNCHANGED appVars
    /\ UNCHANGED dbVars

SpecLoad == InitLoad /\ [][GetAllConfig]_vars

(***************************************************************************)
(* Comparing a pasted configuration: a file system and a text are drawn,   *)
(* one call of compare_custom_config compares them                         *)
(***************************************************************************)
InitCustom ==
    /\ DiffIdle
    /\ config_raw \in {t \in Texts : Len(t) <= MaxCustomLen}
    /\ source = "custom"
    /\ lines = <<>>
    /\ pg_config_options = <<>>
    /\ dups = <<>>
    /\ parsed = FALSE
    /\ files \in StartFileSystems
    /\ CONFIG_FULL = NotStarted
    /\ AppIdle
    /\ DbIdle

CompareCustomConfig ==
    /\ ~compared.called
    /\ \E v \in Idents :
        \E order \in Orders(dup_keys_of(parse_options(get_config_lines("custom", config_raw)))) :
            compared' = compare_custom_config(files, v, config_raw, order)
    /\ UNCHANGED custom_stats
    /\ UNCHANGED <<request, response, hops, phase>>
    /\ UNCHANGED diffVars
    /\ UNCHANGED parseVars
    /\ UNCHANGED loadVars
    /\ UNCHANGED dbVars

\* the statistics of the table compare_custom_config has built
CustomConfigChangesStats ==
    /\ compared.status = "ok"
    /\ ~custom_stats.called
    /\ custom_stats' =
          [called |-> TRUE,
           change_stats |-> custom_config_changes_stats(compared.summary, compared.vers1),
           updated_params |-> custom_config_updated_params(compared.summary, compared.vers1)]
    /\ UNCHANGED compared
    /\ UNCHANGED <<request, response, hops, phase>>
    /\ UNCHANGED diffVars
    /\ UNCHANGED parseVars
    /\ UNCHANGED loadVars
    /\ UNCHANGED dbVars

NextCustom == CompareCustomConfig \/ CustomConfigChangesStats

SpecCustom == InitCustom /\ [][NextCustom]_vars

(***************************************************************************)
(* The web layer: the application starts on a file system (routes.py       *)
(* builds CONFIG_FULL when it is imported), a client asks for a path and   *)
(* follows the redirects it is answered with                               *)
(***************************************************************************)
InitWeb ==
    /\ DiffIdle
    /\ ParseIdle
    /\ files \in StartFileSystems
    /\ CONFIG_FULL = get_all_config(files)
    /\ AppIdle
    /\ DbIdle

Browse ==
    \* the application serves requests once the import has succeeded
    /\ CONFIG_FULL.status = "ok"
    /\ phase = "idle"
    /\ request' \in StartPaths
    /\ phase' = "pending"
    /\ hops' = 0
    /\ UNCHANGED <<response, compared, custom_stats>>
    /\ UNCHANGED diffVars
    /\ UNCHANGED parseVars
    /\ UNCHANGED loadVars
    /\ UNCHANGED dbVars

\* a handler answers and leaves CONFIG_FULL holding `config_full`
Answer(resp, config_full) ==
    /\ response' = resp
    /\ phase' = "responded"
    /\ CONFIG_FULL' = [CONFIG_FULL EXCEPT !.table = config_full]
    /\ UNCHANGED files
    /\ UNCHANGED <<request, hops, compared, custom_stats>>
    /\ UNCHANGED diffVars
    /\ UNCHANGED parseVars
    /\ UNCHANGED dbVars

ViewRootUrl ==
    /\ phase = "pending"
    /\ request = RootPath
    /\ Answer(view_root_url, CONFIG_FULL.table)

RedirectParamChangeWithDefaults ==
    /\ phase = "pending"
    /\ request = ParamChangePath
    /\ Answer(redirect_param_change_with_defaults, CONFIG_FULL.table)

ViewAppParamChanges ==
    /\ phase = "pending"
    /\ Len(request) = 4
    /\ LET answer == view_app_param_changes(CONFIG_FULL.table, request[3], request[4])
       \* a rendered page has had the column 'history' set on the frame of
       \* the changes
       IN Answer(answer,
                 IF answer.kind = "render"
                 THEN written(CONFIG_FULL.table, selection_object,
                              pgconfig_config_changes_html(CONFIG_FULL.table))
                 ELSE CONFIG_FULL.table)

\* /param/<pg_param>; the rows of CONFIG_FULL lie in some order
ViewAppParams ==
    /\ phase = "pending"
    /\ Len(request) = 2
    /\ request[1] = "param"
    /\ request[2] # "change"
    /\ \E order \in Orders(DOMAIN CONFIG_FULL.table.rows) :
          LET result == view_app_params(CONFIG_FULL.table, order, Chars(request[2]))
          IN Answer(result.answer, result.config_full)

\* /custom/<vers1>: the form is shown, or a posted configuration compared
ViewCustomConfigComparison ==
    /\ phase = "pending"
    /\ Len(request) = 2
    /\ request[1] = "custom"
    /\ \E submitted \in BOOLEAN :
        \E text \in {ConfTexts[i] : i \in 1..Len(ConfTexts)} :
        \E order \in Orders(dup_keys_of(parse_options(get_config_lines("custom", text)))) :
            Answer(view_custom_config_comparison(files, request[2], submitted, text, order),
                   CONFIG_FULL.table)

\* the client goes on to its next request
NextRequest ==
    /\ phase = "responded"
    /\ response.kind # "redirect"
    /\ phase' = "idle"
    /\ request' = RootPath
    /\ response' = NoResponse
    /\ UNCHANGED <<hops, compared, custom_stats>>
    /\ UNCHANGED diffVars
    /\ UNCHANGED parseVars
    /\ UNCHANGED loadVars
    /\ UNCHANGED dbVars

\* the client follows a redirect
FollowRedirect ==
    /\ phase = "responded"
    /\ response.kind = "redirect"
    /\ hops < MaxHops
    /\ request' = response.location
    /\ hops' = hops + 1
    /\ phase' = "pending"
    /\ UNCHANGED <<response, compared, custom_stats>>
    /\ UNCHANGED diffVars
    /\ UNCHANGED parseVars
    /\ UNCHANGED loadVars
    /\ UNCHANGED dbVars

NextWeb ==
    \/ Browse
    \/ ViewRootUrl
    \/ RedirectParamChangeWithDefaults
    \/ ViewAppParamChanges
    \/ ViewAppParams
    \/ ViewCustomConfigComparison
    \/ FollowRedirect
    \/ NextRequest

SpecWeb == InitWeb /\ [][NextWeb]_vars

(***************************************************************************)
(* _execute_query step by step: the connection, the query, the finally     *)
(* clause; calls follow one another                                        *)
(***************************************************************************)

\* _execute_query(sql_raw, params, qry_type) is called
ExecuteQuery ==
    /\ db_pc = "idle"
    /\ db_call' \in Calls
    /\ db_pc' = "get_db_conn"
    /\ UNCHANGED <<connections, db_log, results, calls>>
    /\ UNCHANGED <<diffVars, parseVars, loadVars, appVars>>

\* conn = get_db_conn() and the test of conn
GetDbConn ==
    /\ db_pc = "get_db_conn"
    /\ LET conn == open_connection(db_call.connect)
       IN IF conn = Returns(<<"conn">>)
          THEN /\ connections' = connections + 1
               /\ db_log' = Append(db_log, "connect")
               /\ db_pc' = "execute"
               /\ UNCHANGED results
          ELSE /\ results' = conn
               /\ db_pc' = "done"
               /\ UNCHANGED <<connections, db_log>>
    /\ UNCHANGED <<db_call, calls>>
    /\ UNCHANGED <<diffVars, parseVars, loadVars, appVars>>

\* the cursor and the second try statement up to its finally clause
Execute ==
    /\ db_pc = "execute"
    /\ db_log' = db_log \o <<"execute">>
                  \o (IF db_call.execute # "ok" THEN <<>>
                      ELSE IF db_call.qry_type = "sel_single" THEN <<"fetchone">>
                      ELSE IF db_call.qry_type = "sel_multi" THEN <<"fetchall">>
                      ELSE IF db_call.qry_type = "ddl" THEN <<"commit">>
                      ELSE <<>>)
    /\ results' = try_except(db_call)
    /\ db_pc' = "finally"
    /\ UNCHANGED <<db_call, connections, calls>>
    /\ UNCHANGED <<diffVars, parseVars, loadVars, appVars>>

\* the finally clause, then the return or the error that leaves the call
Finally ==
    /\ db_pc = "finally"
    /\ IF closed_in_finally(results)
       THEN /\ connections' = connections - 1
            /\ db_log' = Append(db_log, "close")
       ELSE UNCHANGED <<connections, db_log>>
    /\ db_pc' = "done"
    /\ UNCHANGED <<db_call, results, calls>>
    /\ UNCHANGED <<diffVars, parseVars, loadVars, appVars>>

\* the caller goes on to its next call
NextQuery ==
    /\ db_pc = "done"
    /\ calls < MaxCalls
    /\ calls' = calls + 1
    /\ db_pc' = "idle"
    /\ db_call' = [qry_type |-> "", connect |-> "", execute |-> "",
                   returns_rows |-> FALSE, rows |-> 0]
    /\ db_log' = <<>>
    /\ results' = NoOutcome
    /\ UNCHANGED connections
    /\ UNCHANGED <<diffVars, parseVars, loadVars, appVars>>

NextDb ==
    \/ ExecuteQuery
    \/ GetDbConn
    \/ Execute
    \/ Finally
    \/ NextQuery

SpecDb == Init /\ [][NextDb]_vars

(***************************************************************************)
(* Properties of the diff engine (specification Spec)                      *)
(***************************************************************************)
Called == changed.status # "none"
Diffed == changed.status = "ok"

\* the two parameter tables a successful diff has read
Table1 == opened[1].content.data
Table2 == opened[2].content.data
InBoth(n) == n \in DOMAIN Table1 /\ n \in DOMAIN Table2

\* the classification of parameter n: its summary, "" when it has no row
SummaryOf(n) == IF n \in DOMAIN changed.rows THEN changed.rows[n].summary ELSE ""

DEFAULT_LABELS == {"Changed default value",
                   "Changed default value, Changed variable type"}
TYPE_LABELS == {"Changed variable type",
                "Changed default value, Changed variable type"}

\* C1: config_changes(v1, v2) with v2 <= v1 (equal versions and unsupported
\* versions included) fails with ValueError, returns no rows and reads no
\* snapshot
C1_MisorderedRaisesValueError ==
    (Called /\ vers2 <= vers1) =>
        /\ changed.status = "ValueError"
        /\ changed.rows = EmptyTable
        /\ opened = <<>>

C1_Witness ==
    /\ changed.status = "ValueError"
    /\ vers2 = vers1
    /\ InVersions(str(vers1))

\* C2: in a diff, a parameter only in version 2 is classified exactly
\* 'Configuration parameter added', a parameter only in version 1 exactly
\* 'Configuration parameter removed', and a parameter of both versions gets
\* neither label
C2_AddedRemovedExact ==
    Diffed =>
        \A n \in ParamNames :
            /\ (n \notin DOMAIN Table1 /\ n \in DOMAIN Table2)
                   => SummaryOf(n) = NEW_STRING
            /\ (n \in DOMAIN Table1 /\ n \notin DOMAIN Table2)
                   => SummaryOf(n) = REMOVED_STRING
            /\ InBoth(n) => SummaryOf(n) \notin {NEW_STRING, REMOVED_STRING}

C2_Witness ==
    /\ Diffed
    /\ \E n, m \in DOMAIN changed.rows :
        /\ n \notin DOMAIN Table1 /\ changed.rows[n].summary = NEW_STRING
        /\ m \notin DOMAIN Table2 /\ changed.rows[m].summary = REMOVED_STRING

\* C3: for a parameter of both versions the summary carries 'Changed default
\* value' exactly when the boot values differ and 'Changed variable type'
\* exactly when the variable types differ, each independently of the other
C3_ChangedLabelsIndependent ==
    Diffed =>
        \A n \in ParamNames : InBoth(n) =>
            /\ SummaryOf(n) \in DEFAULT_LABELS
                   <=> Table1[n].boot_val # Table2[n].boot_val
            /\ SummaryOf(n) \in TYPE_LABELS
                   <=> Table1[n].vartype # Table2[n].vartype

C3_Witness ==
    /\ Diffed
    /\ \E n \in DOMAIN changed.rows :
        /\ InBoth(n)
        /\ Table1[n].boot_val # Table2[n].boot_val
        /\ Table1[n].vartype # Table2[n].vartype
        /\ changed.rows[n].summary = "Changed default value, Changed variable type"

\* C4: the diff has a row for a parameter exactly when it is added, removed,
\* or differs in default value or variable type; a parameter equal in both
\* versions and a parameter of neither version have no row
Differs(n) ==
    \/ (n \in DOMAIN Table1) # (n \in DOMAIN Table2)
    \/ /\ InBoth(n)
       /\ \/ Table1[n].boot_val # Table2[n].boot_val
          \/ Table1[n].vartype # Table2[n].vartype

C4_RowsExactlyDifferences ==
    Diffed => DOMAIN changed.rows = {n \in ParamNames : Differs(n)}

C4_Witness ==
    /\ Diffed
    /\ \E n, m \in ParamNames :
        /\ InBoth(n) /\ Table1[n] = Table2[n] /\ n \notin DOMAIN changed.rows
        /\ m \in DOMAIN changed.rows

\* C5: the counts of config_changes_stats are >= 0, add up to the number of
\* rows of the diff, and `updated` counts each changed row once, a row
\* changed on both fields included
ChangedRows == {n \in DOMAIN changed.rows :
                  changed.rows[n].summary \notin {NEW_STRING, REMOVED_STRING}}

C5_StatsAddUp ==
    (stats # NoStats) =>
        /\ stats.new >= 0 /\ stats.removed >= 0 /\ stats.updated >= 0
        /\ stats.new + stats.removed + stats.updated
              = Cardinality(DOMAIN changed.rows)
        /\ stats.updated = Cardinality(ChangedRows)

C5_Witness ==
    /\ stats # NoStats
    /\ stats.updated = 1
    /\ stats.removed = 1
    /\ \E n \in ChangedRows :
          changed.rows[n].summary = "Changed default value, Changed variable type"

(***************************************************************************)
(* Properties of the parser (specification SpecParse)                      *)
(***************************************************************************)
\* the raw lines of the text, as the parser iterates them
RawLines == IF source = "file" THEN file_lines(config_raw) ELSE splitlines(config_raw)

NonBlank(line) == {i \in 1..Len(line) : line[i] \notin Whitespace}

\* a raw line that is not blank, not whitespace only and does not start
\* (after whitespace) with '#'
Contributes(line) == NonBlank(line) # {} /\ line[Min(NonBlank(line))] # "#"

Contributing == {r \in 1..Len(RawLines) : Contributes(RawLines[r])}

\* the k-th contributing raw line
ContributingLine(k) ==
    RawLines[CHOOSE r \in Contributing : Cardinality({q \in Contributing : q < r}) = k - 1]

\* the positions of the text where an entry starts: a character that is
\* neither whitespace nor '#', with only whitespace between it and the
\* start of its line
EntryStarts ==
    {i \in 1..Len(config_raw) :
        /\ config_raw[i] \notin Whitespace \cup {"#"}
        /\ \A j \in 1..(i - 1) :
              (\A m \in j..(i - 1) : config_raw[m] \notin LineBreaks)
                  => config_raw[j] \in Whitespace}

Has(s, ch) == \E i \in 1..Len(s) : s[i] = ch

\* the text of a line before its first '#'
BeforeComment(line) ==
    IF Has(line, "#")
    THEN SubSeq(line, 1, Min({i \in 1..Len(line) : line[i] = "#"}) - 1)
    ELSE line

\* c is s without its leading and trailing whitespace
Trimmed(s, c) ==
    /\ c = <<>> => NonBlank(s) = {}
    /\ c # <<>> =>
         \E i, j \in 1..Len(s) :
            /\ c = SubSeq(s, i, j)
            /\ s[i] \notin Whitespace /\ s[j] \notin Whitespace
            /\ \A m \in 1..Len(s) : (m < i \/ m > j) => s[m] \in Whitespace

\* C6: the duplicates list holds, for a key that occurs N > 1 times, its N
\* pairs (each occurrence with its own value, in order) and nothing for a
\* key that occurs once; it is empty when no key repeats
AllKeys == {pg_config_options[k][1] : k \in 1..Len(pg_config_options)}
                \cup {dups[k][1] : k \in 1..Len(dups)}

C6_DuplicatesHoldEveryOccurrence ==
    parsed =>
        \A key \in AllKeys :
            rows_of(dups, key) =
                IF Len(rows_of(pg_config_options, key)) > 1
                THEN rows_of(pg_config_options, key)
                ELSE <<>>

C6_Witness ==
    /\ parsed
    /\ Len(pg_config_options) = 3
    /\ Len(dups) = 2
    /\ dups[1][1] = dups[2][1]
    /\ dups[1][2] # dups[2][2]

\* C7: blank lines, whitespace-only lines and lines whose first
\* non-whitespace character is '#' give no entry: the parsed entries are as
\* many as the remaining lines
C7_BlankAndCommentLinesSkipped ==
    parsed =>
        /\ Len(lines) = Cardinality(Contributing)
        /\ Len(pg_config_options) = Cardinality(Contributing)
        /\ Len(pg_config_options) = Cardinality(EntryStarts)

C7_Witness ==
    /\ parsed
    /\ Len(pg_config_options) = 1
    /\ \E r1, r2, r3 \in 1..Len(RawLines) :
        /\ RawLines[r1] \in {<<>>, <<"\n">>}
        /\ Has(RawLines[r2], " ") /\ NonBlank(RawLines[r2]) = {}
        /\ RawLines[r3] # <<>> /\ RawLines[r3][1] = "#"

\* C8: a cleaned line is the text before the first '#' of its raw line,
\* trimmed: neither it nor the key and value parsed from it holds a '#' or
\* a character that followed the first '#'
C8_CommentRemoved ==
    parsed =>
        \A k \in 1..Len(lines) :
            /\ k <= Cardinality(Contributing)
            /\ Trimmed(BeforeComment(ContributingLine(k)), lines[k])
            /\ ~Has(lines[k], "#")
            /\ k <= Len(pg_config_options)
            /\ ~Has(pg_config_options[k][1], "#")
            /\ ~Has(pg_config_options[k][2], "#")

C8_Witness ==
    /\ parsed
    /\ \E k \in 1..Len(lines) :
        /\ find(ContributingLine(k), "#") > 0
        /\ Len(ContributingLine(k)) > find(ContributingLine(k), "#") + 1
        /\ pg_config_options[k][2] # <<>>

\* C9: every cleaned line gives a pair: cut at its first '=' into the
\* trimmed text before and the trimmed text after (later '=' kept); a line
\* without '=' gives the whole line and an empty value
FirstEq(line) == Min({i \in 1..Len(line) : line[i] = "="})

C9_SplitAtFirstEquals ==
    parsed =>
        /\ Len(pg_config_options) = Len(lines)
        /\ \A k \in 1..Len(lines) :
            IF Has(lines[k], "=")
            THEN /\ Trimmed(SubSeq(lines[k], 1, FirstEq(lines[k]) - 1),
                            pg_config_options[k][1])
                 /\ Trimmed(SubSeq(lines[k], FirstEq(lines[k]) + 1, Len(lines[k])),
                            pg_config_options[k][2])
            ELSE pg_config_options[k] = <<lines[k], <<>>>>

C9_Witness ==
    /\ parsed
    /\ \E k, m \in 1..Len(lines) :
        /\ ~Has(lines[k], "=") /\ pg_config_options[k][2] = <<>>
        /\ Has(pg_config_options[m][2], "=")

\* C10: the full list holds one pair per non-empty cleaned line, in the
\* order of the lines of the text, repeated keys kept
PairOf(rawline) ==
    LET body == BeforeComment(rawline)
    IN IF Has(body, "=")
       THEN <<strip(SubSeq(body, 1, FirstEq(body) - 1)),
              strip(SubSeq(body, FirstEq(body) + 1, Len(body)))>>
       ELSE <<strip(body), <<>>>>

C10_FullListInOrder ==
    parsed =>
        /\ Len(pg_config_options) = Cardinality(Contributing)
        /\ \A k \in 1..Len(pg_config_options) :
              pg_config_options[k] = PairOf(ContributingLine(k))

C10_Witness ==
    /\ parsed
    /\ Len(pg_config_options) = 3
    /\ pg_config_options[1][1] = pg_config_options[3][1]
    /\ pg_config_options[1][2] # pg_config_options[3][2]
    /\ pg_config_options[2][1] # pg_config_options[1][1]

(***************************************************************************)
(* Properties of load_config_data and of the diff over missing snapshots   *)
(* (specification Spec)                                                    *)
(***************************************************************************)
SupportedNumbers == 10..16

\* C11: load_config_data fails with ValueError for every version that is
\* not a supported one, and no snapshot file is opened for such a version,
\* neither by a direct call nor by config_changes
C11_UnsupportedVersionRaisesBeforeOpen ==
    /\ (loaded.called /\ loaded.version \notin SupportedNumbers) =>
          /\ loaded.result.error = "ValueError"
          /\ opened = <<>>
    /\ \A i \in 1..Len(opened) : opened[i].version \in SupportedNumbers

C11_Witness ==
    /\ loaded.called
    /\ loaded.version = 17
    /\ loaded.result.error = "ValueError"
    /\ opened = <<>>

\* C13: for a supported version whose snapshot file does not exist
\* load_config_data does not fail and returns a table without rows; a
\* snapshot that exists is returned with its rows
C13_MissingSnapshotGivesEmptyTable ==
    (loaded.called /\ loaded.version \in SupportedNumbers) =>
        /\ ~opened[1].content.exists =>
              /\ loaded.result.error = ""
              /\ loaded.result.rows = EmptyTable
        /\ (opened[1].content.exists /\ DOMAIN opened[1].content.data # {}) =>
              /\ loaded.result.error = ""
              /\ loaded.result.rows = opened[1].content.data

C13_Witness ==
    /\ loaded.called
    /\ loaded.version = 12
    /\ ~opened[1].content.exists
    /\ loaded.result.error = ""

\* C18: config_changes(v1, v2), v1 < v2 both supported, does not fail when
\* one of the two snapshot files is missing: the missing version counts as
\* having no parameters, so the parameters of the other one are all added
\* (v1 missing) or all removed (v2 missing)
OneSnapshotMissing ==
    /\ Called
    /\ vers1 < vers2
    /\ vers1 \in SupportedNumbers /\ vers2 \in SupportedNumbers
    /\ Len(opened) = 2
    /\ opened[1].content.exists # opened[2].content.exists
    /\ DOMAIN Table1 \cup DOMAIN Table2 # {}

C18_MissingSnapshotDiffSucceeds ==
    OneSnapshotMissing =>
        /\ changed.status = "ok"
        /\ ~opened[1].content.exists =>
              \A n \in DOMAIN Table2 : SummaryOf(n) = NEW_STRING
        /\ ~opened[2].content.exists =>
              \A n \in DOMAIN Table1 : SummaryOf(n) = REMOVED_STRING

\* C19: the three tables of config_changes_html partition the rows of the
\* diff, and their sizes are the new, removed and updated counts of
\* config_changes_stats
C19_HtmlTablesPartitionDiff ==
    (html # NoHtml) =>
        /\ html.new \cup html.removed \cup html.changed = DOMAIN changed.rows
        /\ html.new \cap html.removed = {}
        /\ html.new \cap html.changed = {}
        /\ html.removed \cap html.changed = {}
        /\ (stats # NoStats) =>
              /\ Cardinality(html.new) = stats.new
              /\ Cardinality(html.removed) = stats.removed
              /\ Cardinality(html.changed) = stats.updated

C19_Witness ==
    /\ html # NoHtml
    /\ stats # NoStats
    /\ Cardinality(html.removed) = 1
    /\ Cardinality(html.changed) = 1

(***************************************************************************)
(* Properties of get_all_config (specification SpecLoad)                   *)
(***************************************************************************)
\* the (parameter, value) pairs a table holds for a version
ColumnOf(table, v) ==
    {<<r.parameter, r[v]>> : r \in {x \in DOMAIN table.rows : x[v] # NaNCell}}

\* the file system with every file in place
AllFilesPresent == [v \in VersionSet |-> [exists |-> TRUE, text |-> files[v].text]]

\* C17: get_all_config completes whichever version files are missing (the
\* first and the last entry of VERSIONS included); a version with a missing
\* file has a column without values, the other columns are as with the
\* file in place
C17_GetAllConfigToleratesMissingFiles ==
    (CONFIG_FULL # NotStarted) =>
        /\ CONFIG_FULL.status = "ok"
        /\ \A v \in VersionSet :
            IF files[v].exists
            THEN ColumnOf(CONFIG_FULL.table, v)
                    = ColumnOf(get_all_config(AllFilesPresent).table, v)
            ELSE /\ v \in CONFIG_FULL.table.columns
                 /\ ColumnOf(CONFIG_FULL.table, v) = {}

(***************************************************************************)
(* Properties of compare_custom_config (specification SpecCustom)          *)
(***************************************************************************)
\* C12: compare_custom_config(vers1, text) fails with ValueError for every
\* vers1 that is not in VERSIONS, whatever the text, and it does so before
\* the text is parsed and before any version file is opened.
C12_UnknownVersionFailsBeforeParsing ==
    (compared.called /\ compared.vers1 \notin VersionSet) =>
        /\ compared.status = "ValueError"
        /\ compared.trace = <<>>

\* an unknown version was given together with a text that holds a setting
C12_Witness ==
    /\ compared.called
    /\ compared.vers1 \notin VersionSet
    /\ compared.status = "ValueError"
    /\ parse_options(get_config_lines("custom", config_raw)) # <<>>

\* the rows of the comparison table
CustomRows == DOMAIN compared.summary.rows
CopiesOf(rws) == SumCopies(rws, compared.summary.rows)

\* the parameters the version's file and the pasted text set
KeysOf(options) == {options[k][1] : k \in 1..Len(options)}
VersionKeys ==
    KeysOf(parse_options(get_config_lines("file", files[compared.vers1].text)))
CustomKeys == KeysOf(parse_options(get_config_lines("custom", config_raw)))

InvalidRows == {r \in CustomRows : r.parameter \notin VersionKeys}
DefaultRows == {r \in CustomRows : r.parameter \notin CustomKeys}
UpdatedRows ==
    {r \in CustomRows : /\ r.parameter \in VersionKeys
                        /\ r.parameter \in CustomKeys
                        /\ r[compared.vers1] # r["custom"]}

\* C24: on a table built by compare_custom_config the three statistics
\* count disjoint sets of rows: invalid_param_custom the rows whose
\* parameter the version does not have, default_setting the rows the pasted
\* text does not set, updated the rows set on both sides to different
\* values, which are the rows custom_config_updated_params returns; a row
\* absent on a side is not counted as updated and a row with equal values
\* is counted nowhere.
C24_CustomStatsCountDisjointRows ==
    custom_stats.called =>
        /\ custom_stats.change_stats.invalid_param_custom = CopiesOf(InvalidRows)
        /\ custom_stats.change_stats.default_setting = CopiesOf(DefaultRows)
        /\ custom_stats.change_stats.updated = CopiesOf(UpdatedRows)
        /\ DOMAIN custom_stats.updated_params.rows = UpdatedRows
        /\ InvalidRows \cap DefaultRows = {}
        /\ InvalidRows \cap UpdatedRows = {}
        /\ DefaultRows \cap UpdatedRows = {}

\* a table with an updated row and a row left at its default
C24_Witness ==
    /\ custom_stats.called
    /\ custom_stats.change_stats.updated > 0
    /\ custom_stats.change_stats.default_setting > 0

(***************************************************************************)
(* Properties of the comparison routes (specification SpecWeb)             *)
(***************************************************************************)
\* the comparison route has answered the request
Compared == phase = "responded" /\ Len(request) = 4

\* the position of a version in VERSIONS; the list is newest first
IndexOf(v) == CHOOSE k \in 1..Len(VERSIONS) : VERSIONS[k] = v

LoadedVersion(v) == v \in VersionSet /\ v \in CONFIG_FULL.table.columns

InvalidPair(v1, v2) ==
    \/ v1 = v2
    \/ ~LoadedVersion(v1)
    \/ ~LoadedVersion(v2)
    \/ IndexOf(v2) >= IndexOf(v1)

\* C14: a request /param/change/<v1>/<v2> whose pair is invalid (v1 equals
\* v2, v2 is not strictly newer than v1, or an identifier is not a loaded
\* version) is answered with a redirect and never with a comparison page.
C14_InvalidPairIsRedirected ==
    (Compared /\ InvalidPair(request[3], request[4])) =>
        response.kind = "redirect"

\* C15: the redirect table is applied before any lookup: config_changes is
\* called only with identifiers that are no source of the redirect table,
\* and a request that names such a source is answered with a redirect
\* without a lookup.
C15_RedirectTableBeforeLookup ==
    Compared =>
        /\ \A i \in 1..Len(response.lookup) :
              /\ response.lookup[i].vers1 \notin RedirectSources
              /\ response.lookup[i].vers2 \notin RedirectSources
        /\ (request[3] \in RedirectSources \/ request[4] \in RedirectSources) =>
              /\ response.kind = "redirect"
              /\ response.lookup = <<>>

\* a request that names 12beta4 was redirected to the pair with 12
C15_Witness ==
    /\ Compared
    /\ request[3] = "12beta4"
    /\ request[4] = "15"
    /\ response.kind = "redirect"
    /\ response.location = ComparisonPath("12", "15")

\* what the redirect table says about an identifier
Mapped(v) == IF v = "12beta4" THEN "12" ELSE v

\* C16: check_redirect(v) is the mapped stable identifier for every source
\* of VERSION_REDIRECTS ('12beta4' gives '12') and v itself for every other
\* identifier, unsupported ones included.
C16_CheckRedirectMapsSourcesOnly ==
    Compared =>
        /\ response.vers1_redirect = Mapped(request[3])
        /\ response.vers2_redirect = Mapped(request[4])

\* a redirected identifier and an unsupported one went through check_redirect
C16_Witness ==
    /\ Compared
    /\ request[3] = "12beta4"
    /\ request[4] = "9.9"
    /\ response.vers1_redirect = "12"
    /\ response.vers2_redirect = "9.9"

\* C20: from any first request, following the redirects reaches a rendered
\* comparison page after a bounded number of redirects: every answer is a
\* page or a redirect the client can still follow.
C20_RedirectsReachAPage ==
    (phase = "responded") =>
        /\ response.kind \in {"redirect", "render"}
        /\ (response.kind = "redirect" => hops < MaxHops)

(***************************************************************************)
(* Properties of _execute_query (specification SpecDb)                     *)
(***************************************************************************)
QueryEnded == db_pc = "done"
ConnectFailed == db_call.connect # "connected"
ExecuteFailed == db_call.connect = "connected" /\ db_call.execute # "ok"

\* C22: _execute_query returns False, and does not raise, whenever
\* connecting or executing the query fails; it returns the result of the
\* query only when both succeed.
C22_ErrorsReturnFalse ==
    QueryEnded =>
        /\ (ConnectFailed \/ ExecuteFailed) => results = Returns(ResultFalse)
        /\ (results.kind = "return" /\ results.value # ResultFalse) =>
              (~ConnectFailed /\ ~ExecuteFailed)

\* C23: every connection _execute_query opens is closed before the call
\* returns or raises, so no sequence of calls leaves a connection open;
\* when the connection cannot be opened nothing is closed and no query is
\* executed.
C23_ConnectionsAreClosed ==
    /\ (db_pc \in {"idle", "done"}) => connections = 0
    /\ (QueryEnded /\ ~ConnectFailed) =>
          (db_log[1] = "connect" /\ db_log[Len(db_log)] = "close")
    /\ (QueryEnded /\ ConnectFailed) => db_log = <<>>

\* a second call ended in an error after it had opened a connection
C23_Witness ==
    /\ QueryEnded
    /\ calls >= 1
    /\ results.kind = "raise"
    /\ db_log = <<"connect", "execute", "close">>
    /\ connections = 0

====
